---- MODULE Spec2Model ----
(***************************************************************************)
(* Model of src/main.py: the OpenSky gateway (OAuth2 token cache, soft     *)
(* error HTTP fetch), the state normalizer, the airspace summarizer and    *)
(* the four exposed operations.                                            *)
(*                                                                         *)
(* Conventions.  A nullable Python value is None (the empty tuple) or      *)
(* Some(v) (a one element tuple).  A Python str that the code slices or    *)
(* strips is a sequence of one character strings.  Floats are fixed point  *)
(* integers: degrees in 1/100, km/h in 1/10, feet in 1/100000.  Time is    *)
(* time.time() in whole seconds.  asyncio runs one coroutine at a time, so *)
(* an action is the code between two awaits of a network call.             *)
(***************************************************************************)
EXTENDS Integers, Sequences, FiniteSets, TLC

VARIABLES
    creds,        \* CLIENT_ID and CLIENT_SECRET are both set
    now,          \* time.time()
    token_cache,  \* _token_cache
    grants,       \* history: the token responses stored so far, in order
    pc,           \* per invocation: idle, auth_wait, get_wait, done
    args,         \* per invocation: the operation and its arguments
    t0,           \* per invocation: local `now` of _get_bearer_token, while it runs
    g0,           \* history: Len(grants) when the running _get_bearer_token read the cache
    tok,          \* per invocation: local `token` of _opensky_get, while it runs
    reqs,         \* history: the outbound requests of the invocation, in order
    inflight,     \* history: the outbound requests awaiting a response
    fault,        \* history: the exception the data request raised ("" if none)
    raw,          \* per invocation: what _opensky_get returned
    result,       \* per invocation: what the operation returned
    fn_phase,     \* pure function harness: "in" or "out"
    fn_raw,       \* pure function harness: payload given to _normalize_states
    fn_top_n,     \* pure function harness: top_n
    fn_states,    \* pure function harness: _normalize_states(fn_raw)
    fn_summary    \* pure function harness: the summary of fn_states

gwvars == <<creds, now, token_cache, grants, pc, args, t0, g0, tok, reqs,
            inflight, fault, raw, result>>
fnvars == <<fn_phase, fn_raw, fn_top_n, fn_states, fn_summary>>
vars == <<gwvars, fnvars>>

----------------------------------------------------------------------------
(* Bounds of the model *)

NumProcs == 2
MaxTime == 90
TickStep == 30
MaxGrants == 2
MaxStates == 3

(* Program constants *)

MIN_TTL == 60
SAFETY_MARGIN == 30
DEFAULT_EXPIRES_IN == 1800
KMH_PER_MS_X10 == 36
FT_PER_M_X100000 == 328084

OPENSKY_BASE == "https://opensky-network.org/api"
STATES_PATH == "/states/all"

None == <<>>
Some(v) == <<v>>

Max(a, b) == IF a >= b THEN a ELSE b
Min(a, b) == IF a <= b THEN a ELSE b

Procs == 1 .. NumProcs

REGION_NAMES == <<"moscow", "spb", "komi", "komi_wide">>

REGIONS ==
    [moscow    |-> <<5520, 3690, 5610, 3830>>,
     spb       |-> <<5950, 2970, 6020, 3120>>,
     komi      |-> <<5890, 4490, 6870, 6670>>,
     komi_wide |-> <<5850, 4400, 6920, 6720>>]

----------------------------------------------------------------------------
(* OAuth cache: _get_bearer_token *)

EmptyCache == [token |-> None, exp |-> 0]

\* Mutant of CacheValid: the expiry instant still counts as valid.
CacheValidInclusive(cache, t) == cache.token # None /\ t <= cache.exp

\* if token and now < exp
CacheValid(cache, t) == cache.token # None /\ t < cache.exp

Expiry(t, expires_in) == t + Max(MIN_TTL, expires_in - SAFETY_MARGIN)

\* Mutant of StoreToken: an incremental update that keeps the later expiry.
StoreKeepLaterExpiry(cache, token, t, expires_in) ==
    [token |-> token, exp |-> Max(cache.exp, Expiry(t, expires_in))]

\* _token_cache["token"] = token; _token_cache["exp"] = now + max(60, expires_in - 30)
StoreToken(cache, token, t, expires_in) ==
    [token |-> token, exp |-> Expiry(t, expires_in)]

\* Mutant of TokenOnFailure: fall back to whatever token the cache holds.
StaleToken(cache) == cache.token

\* except Exception: return None
TokenOnFailure(cache) == None

\* int(payload.get("expires_in", 1800))
ExpiresIn(o) == IF o.expires_in = None THEN DEFAULT_EXPIRES_IN ELSE o.expires_in[1]

\* The token response reaches lines 97-98 (nothing raised before them).
Stores(o) == o.kind = "payload" /\ o.int_ok

AuthOutcomes ==
    {[kind |-> k] : k \in {"network_error", "http_error", "bad_json", "not_object"}}
    \cup {[kind |-> "payload", has_token |-> h, expires_in |-> e, int_ok |-> TRUE] :
            h \in {TRUE}, e \in {Some(0), Some(120)}}
    \cup {[kind |-> "payload", has_token |-> FALSE, expires_in |-> None, int_ok |-> TRUE]}
    \cup {[kind |-> "payload", has_token |-> TRUE, expires_in |-> Some(0), int_ok |-> FALSE]}

----------------------------------------------------------------------------
(* Common error formatter and the low-level GET: _err, _opensky_get *)

\* {"ok": False, "error": {"where":…, "kind":…, "message":…, **extra}}
Err(where, kind, message, extra) ==
    [ok |-> FALSE,
     error |-> extra @@ [where |-> where, kind |-> kind, message |-> message]]

\* The exception classes the data request can raise, each with its bases
\* (httpx's hierarchy; json's decode error is a ValueError).
ExcBases ==
    [ConnectError    |-> {"ConnectError", "NetworkError", "TransportError", "Exception"},
     ReadError       |-> {"ReadError", "NetworkError", "TransportError", "Exception"},
     ConnectTimeout  |-> {"ConnectTimeout", "TimeoutException", "TransportError", "Exception"},
     ReadTimeout     |-> {"ReadTimeout", "TimeoutException", "TransportError", "Exception"},
     WriteTimeout    |-> {"WriteTimeout", "TimeoutException", "TransportError", "Exception"},
     PoolTimeout     |-> {"PoolTimeout", "TimeoutException", "TransportError", "Exception"},
     HTTPStatusError |-> {"HTTPStatusError", "HTTPError", "Exception"},
     JSONDecodeError |-> {"JSONDecodeError", "ValueError", "Exception"}]

IsInstance(exc, cls) == cls \in ExcBases[exc]

\* What the body of the try block raises for a transport outcome ("": nothing).
RaisedBy(o) ==
    IF o.kind = "exception" THEN o.exc
    ELSE IF ~(o.status \in 200 .. 299) THEN "HTTPStatusError"
    ELSE IF ~o.json THEN "JSONDecodeError"
    ELSE ""

\* The except chain of _opensky_get, first match wins.
ErrorKind(exc) ==
    IF IsInstance(exc, "ConnectError") THEN "connect_error"
    ELSE IF IsInstance(exc, "ReadTimeout") THEN "timeout"
    ELSE IF IsInstance(exc, "HTTPStatusError") THEN "http_status"
    ELSE "unknown"

\* str(e) is the library's text for the exception; the class name stands for it.
OpenskyGetResult(o, url, params) ==
    LET exc == RaisedBy(o) IN
    IF exc = "" THEN [ok |-> TRUE, data |-> o.data, url |-> url, params |-> params]
    ELSE IF ErrorKind(exc) = "http_status"
         THEN Err("opensky", "http_status", exc,
                  [status |-> o.status, url |-> url, params |-> params])
         ELSE Err("opensky", ErrorKind(exc), exc, [url |-> url, params |-> params])

\* Mutant of IssueGet: the GET is sent a second time.
IssueGetWithRetry(rs) == Append(Append(rs, "data"), "data")

\* r = await client.get(url, params=params, headers=headers)
IssueGet(rs) == Append(rs, "data")

----------------------------------------------------------------------------
(* Normalization helpers: _to_kmh, _to_ft, _normalize_states *)

ToKmh(v_ms) == IF v_ms = None THEN None ELSE Some(v_ms[1] * KMH_PER_MS_X10)

ToFt(alt_m) == IF alt_m = None THEN None ELSE Some(alt_m[1] * FT_PER_M_X100000)

UNKNOWN == <<"U", "N", "K", "N", "O", "W", "N">>
UNK == <<"U", "N", "K">>
Whitespace == {" ", "\t"}

RECURSIVE LStrip(_)
LStrip(s) ==
    IF s # <<>> /\ Head(s) \in Whitespace THEN LStrip(Tail(s)) ELSE s

RECURSIVE RStrip(_)
RStrip(s) ==
    IF s # <<>> /\ s[Len(s)] \in Whitespace
    THEN RStrip(SubSeq(s, 1, Len(s) - 1)) ELSE s

Strip(s) == RStrip(LStrip(s))

\* (s[1] or "").strip() or "UNKNOWN"
Callsign(c) ==
    LET str == IF c = None THEN <<>> ELSE c[1]
        st  == Strip(str)
    IN IF st = <<>> THEN UNKNOWN ELSE st

\* s[i] of a Python list
At(s, i) == s[i + 1]

\* Mutant of Dropped: a record is dropped only when it has neither coordinate.
DroppedBoth(lat, lon) == lat = None /\ lon = None

\* if lat is None or lon is None: continue
Dropped(lat, lon) == lat = None \/ lon = None

NormalizeOne(s) ==
    [icao24         |-> At(s, 0),
     callsign       |-> Callsign(At(s, 1)),
     origin_country |-> At(s, 2),
     lat            |-> At(s, 6),
     lon            |-> At(s, 5),
     alt_ft         |-> ToFt(At(s, 7)),
     speed_kmh      |-> ToKmh(At(s, 9)),
     track_deg      |-> At(s, 10),
     on_ground      |-> At(s, 8),
     last_contact   |-> At(s, 4)]

RECURSIVE NormalizeLoop(_, _, _)
NormalizeLoop(states, i, out) ==
    IF i > Len(states) THEN out
    ELSE IF Dropped(At(states[i], 6), At(states[i], 5))
         THEN NormalizeLoop(states, i + 1, out)
         ELSE NormalizeLoop(states, i + 1, Append(out, NormalizeOne(states[i])))

\* raw.get("states") or []
StatesOf(data) ==
    IF data.has_states /\ data.states # None THEN data.states[1] ELSE <<>>

NormalizeStates(data) == NormalizeLoop(StatesOf(data), 1, <<>>)

----------------------------------------------------------------------------
(* Summary: the body of _airspace_summary_bbox *)

\* Mutant of Slice: lst[:n + 1]
SliceInclusive(lst, n) ==
    IF n + 1 >= 0 THEN SubSeq(lst, 1, Min(n + 1, Len(lst)))
    ELSE SubSeq(lst, 1, Max(0, Len(lst) + n + 1))

\* lst[:n]
Slice(lst, n) ==
    IF n >= 0 THEN SubSeq(lst, 1, Min(n, Len(lst)))
    ELSE SubSeq(lst, 1, Max(0, Len(lst) + n))

\* One step of a stable descending sort of <<key, item>> pairs: x goes after
\* every pair whose key is not smaller.
RECURSIVE InsertDesc(_, _)
InsertDesc(sorted, x) ==
    IF sorted = <<>> THEN <<x>>
    ELSE IF Head(sorted)[1] >= x[1]
         THEN <<Head(sorted)>> \o InsertDesc(Tail(sorted), x)
         ELSE <<x>> \o sorted

RECURSIVE SortLoop(_, _, _)
SortLoop(pairs, i, sorted) ==
    IF i > Len(pairs) THEN sorted
    ELSE SortLoop(pairs, i + 1, InsertDesc(sorted, pairs[i]))

\* sorted(lst, key=..., reverse=True) for items keyed by keys[i]
SortedReverse(lst, keys) ==
    LET pairs  == [i \in 1 .. Len(lst) |-> <<keys[i], lst[i]>>]
        sorted == SortLoop(pairs, 1, <<>>)
    IN [i \in 1 .. Len(lst) |-> sorted[i][2]]

HasKey(s, f) == s[f] # None

\* sorted([s for s in states if s.get(f) is not None], key=..., reverse=True)[:top_n]
TopBy(states, f, top_n) ==
    LET defined == SelectSeq(states, LAMBDA s : HasKey(s, f))
        keys    == [i \in 1 .. Len(defined) |-> defined[i][f][1]]
    IN Slice(SortedReverse(defined, keys), top_n)

\* cs[:3] if cs != "UNKNOWN" else "UNK"
Prefix(callsign) ==
    LET cs == IF callsign = <<>> THEN UNKNOWN ELSE callsign
    IN IF cs # UNKNOWN THEN SubSeq(cs, 1, Min(3, Len(cs))) ELSE UNK

\* prefixes[p] = prefixes.get(p, 0) + 1, a dict in insertion order
Tally(prefixes, p) ==
    IF \E i \in 1 .. Len(prefixes) : prefixes[i][1] = p
    THEN [i \in 1 .. Len(prefixes) |->
            IF prefixes[i][1] = p THEN <<p, prefixes[i][2] + 1>> ELSE prefixes[i]]
    ELSE Append(prefixes, <<p, 1>>)

RECURSIVE TallyLoop(_, _, _)
TallyLoop(states, i, prefixes) ==
    IF i > Len(states) THEN prefixes
    ELSE TallyLoop(states, i + 1, Tally(prefixes, Prefix(states[i].callsign)))

TopPrefixes(states, top_n) ==
    LET items == TallyLoop(states, 1, <<>>)
        keys  == [i \in 1 .. Len(items) |-> items[i][2]]
    IN Slice(SortedReverse(items, keys), top_n)

Summary(states, bbox, count, top_n) ==
    [ok |-> TRUE,
     bbox |-> bbox,
     count |-> count,
     top_by_speed |-> TopBy(states, "speed_kmh", top_n),
     top_by_altitude |-> TopBy(states, "alt_ft", top_n),
     top_callsign_prefixes |-> TopPrefixes(states, top_n),
     note |-> "live snapshot",
     disclaimer |-> "origin_country is the ICAO24 registration country"]

----------------------------------------------------------------------------
(* The operations: what each does with the result of _opensky_get *)

Url == OPENSKY_BASE \o STATES_PATH

\* An exception leaving the operation.
Raise(exc) == [raised |-> exc]
IsRaise(r) == "raised" \in DOMAIN r

BBoxParams(b) == [lamin |-> b[1], lomin |-> b[2], lamax |-> b[3], lomax |-> b[4]]

\* region in REGIONS
RegionKnown(region) == region \in DOMAIN REGIONS

\* Mutant of Available: the names of a catalog that lacks the last preset.
AvailableStale == SubSeq(REGION_NAMES, 1, Len(REGION_NAMES) - 1)

\* list(REGIONS.keys())
Available == REGION_NAMES

UnknownRegion(region) ==
    Err("server", "unknown_region", "region not found: " \o region,
        [available |-> Available])

\* The params dict the operation hands to _opensky_get.
ParamsOf(a) ==
    IF a.op = "live_states"
    THEN IF a.extended # 0
         THEN BBoxParams(a.bbox) @@ [extended |-> 1]
         ELSE BBoxParams(a.bbox)
    ELSE IF a.op = "airspace_summary_by_region"
         THEN BBoxParams(REGIONS[a.region])
         ELSE BBoxParams(a.bbox)

\* opensky_live_states_bbox, after the fetch
LiveStatesResult(rw, params) ==
    IF ~rw.ok THEN rw
    ELSE [ok |-> TRUE, bbox |-> params, raw |-> rw.data, note |-> "raw /states/all"]

\* Mutant of NormalizedStatesResult: no early return on an error envelope;
\* the missing data is taken as no states.
NormalizedStatesNoCheck(rw, params) ==
    IF ~rw.ok THEN [ok |-> TRUE, bbox |-> params, count |-> 0, states |-> <<>>]
    ELSE IF ~rw.data.is_dict THEN Raise("AttributeError")
    ELSE LET items == NormalizeStates(rw.data)
         IN [ok |-> TRUE, bbox |-> params, count |-> Len(items), states |-> items]

\* _normalized_states_bbox, after the fetch; a payload that is no JSON object
\* has no .get and the AttributeError leaves the operation.
NormalizedStatesResult(rw, params) ==
    IF ~rw.ok THEN rw
    ELSE IF ~rw.data.is_dict THEN Raise("AttributeError")
    ELSE LET items == NormalizeStates(rw.data)
         IN [ok |-> TRUE, bbox |-> params, count |-> Len(items), states |-> items]

\* _airspace_summary_bbox, after _normalized_states_bbox
AirspaceSummaryResult(data, top_n) ==
    IF IsRaise(data) THEN data
    ELSE IF ~data.ok THEN data
    ELSE Summary(data.states, data.bbox, data.count, top_n)

OpResult(a, rw) ==
    IF a.op = "live_states" THEN LiveStatesResult(rw, ParamsOf(a))
    ELSE IF a.op = "normalized_states" THEN NormalizedStatesResult(rw, ParamsOf(a))
    ELSE AirspaceSummaryResult(NormalizedStatesResult(rw, ParamsOf(a)), a.top_n)

----------------------------------------------------------------------------
(* Inputs *)

Chars_BAW123 == <<"B", "A", "W", "1", "2", "3", " ", " ">>
Chars_AFL1 == <<" ", "A", "F", "L", "1">>
Chars_BA == <<"B", "A">>
Chars_Blank == <<" ", " ">>

\* One record of /states/all: a positional array, indices 0..10.
Vector(icao24, callsign, lon, lat, baro_alt_m, velocity_ms) ==
    <<icao24, callsign, "UK", Some(0), 0, lon, lat, baro_alt_m, FALSE,
      velocity_ms, Some(90)>>

Vectors ==
    {Vector("abc123", Some(Chars_BAW123), Some(-10), Some(5150), Some(1000), Some(250)),
     Vector("abc124", Some(Chars_AFL1), Some(3760), None, Some(900), Some(300)),
     Vector("abc125", None, None, Some(5575), Some(1100), Some(200)),
     Vector("abc126", Some(Chars_Blank), Some(3010), Some(5990), None, Some(250)),
     Vector("abc127", Some(Chars_BA), Some(3020), Some(5980), Some(1000), None),
     Vector("abc128", Some(Chars_BAW123), Some(3030), Some(5970), Some(0), Some(0))}

ObjectData(states) == [is_dict |-> TRUE, has_states |-> TRUE, states |-> states]
NoStatesData == [is_dict |-> TRUE, has_states |-> FALSE, states |-> None]
ArrayData == [is_dict |-> FALSE, has_states |-> FALSE, states |-> None]

\* The sequences of at most n distinct elements of S (an aircraft is
\* reported once per response).
RECURSIVE SeqsUpTo(_, _)
SeqsUpTo(S, n) ==
    IF n = 0 THEN {<<>>}
    ELSE LET shorter == SeqsUpTo(S, n - 1)
         IN shorter \cup
            {Append(q, x) : <<q, x>> \in
                {qx \in shorter \X S : \A i \in 1 .. Len(qx[1]) : qx[1][i] # qx[2]}}

\* Payloads of the pure function harness.
FnPayloads ==
    {ObjectData(None), NoStatesData}
    \cup {ObjectData(Some(q)) : q \in SeqsUpTo(Vectors, MaxStates)}

TopNs == {-1, 0, 1, 2, 5}

\* Payloads of the data responses.
Payloads ==
    {ObjectData(None), NoStatesData, ArrayData,
     ObjectData(Some(<<Vector("abc123", Some(Chars_BAW123), Some(-10), Some(5150),
                              Some(1000), Some(250)),
                       Vector("abc124", Some(Chars_AFL1), Some(3760), None,
                              Some(900), Some(300)),
                       Vector("abc126", Some(Chars_Blank), Some(3010), Some(5990),
                              None, Some(250))>>))}

DataOutcomes ==
    {[kind |-> "exception", exc |-> e] :
        e \in {"ConnectError", "ReadError", "ConnectTimeout", "ReadTimeout",
               "WriteTimeout", "PoolTimeout"}}
    \cup {[kind |-> "response", status |-> s, json |-> FALSE, data |-> ArrayData] :
            s \in {200, 404, 503}}
    \cup {[kind |-> "response", status |-> 200, json |-> TRUE, data |-> d] :
            d \in Payloads}

\* lamin, lomin, lamax, lomax: one ordered box, one with the latitudes the
\* wrong way round, one with the longitudes the wrong way round.
BBoxes ==
    {<<5520, 3690, 5610, 3830>>, <<5610, 3690, 5520, 3830>>,
     <<5520, 3830, 5610, 3690>>}

RegionInputs == {"moscow", "spb", "komi", "komi_wide", "atlantis"}

Inputs ==
    {[op |-> "live_states", bbox |-> b, extended |-> x] : b \in BBoxes, x \in {0, 1}}
    \cup {[op |-> "normalized_states", bbox |-> b] : b \in BBoxes}
    \cup {[op |-> "airspace_summary", bbox |-> b, top_n |-> n] :
            b \in BBoxes, n \in {-1, 2, 5}}
    \cup {[op |-> "airspace_summary_by_region", region |-> r, top_n |-> n] :
            r \in RegionInputs, n \in {2, 5}}

\* The inputs and transport outcomes of the concurrent specification.
ConcInputs == {[op |-> "normalized_states", bbox |-> <<5520, 3690, 5610, 3830>>]}

ConcDataOutcomes ==
    {[kind |-> "response", status |-> 200, json |-> TRUE, data |-> ObjectData(None)]}

NoArgs == [op |-> "none"]

----------------------------------------------------------------------------
(* The state machine *)

Init ==
    /\ creds \in BOOLEAN
    /\ now = 0
    /\ token_cache = EmptyCache
    /\ grants = <<>>
    /\ pc = [p \in Procs |-> "idle"]
    /\ args = [p \in Procs |-> NoArgs]
    /\ t0 = [p \in Procs |-> 0]
    /\ g0 = [p \in Procs |-> 0]
    /\ tok = [p \in Procs |-> None]
    /\ reqs = [p \in Procs |-> <<>>]
    /\ inflight = [p \in Procs |-> {}]
    /\ fault = [p \in Procs |-> ""]
    /\ raw = [p \in Procs |-> None]
    /\ result = [p \in Procs |-> None]
    /\ fn_phase = "off"
    /\ fn_raw = NoStatesData
    /\ fn_top_n = 0
    /\ fn_states = <<>>
    /\ fn_summary = None

\* A tool call up to its first await: the region lookup, then _opensky_get
\* up to the POST of _get_bearer_token or, without one, up to the GET.
Invoke(p, a) ==
    /\ pc[p] = "idle"
    /\ args' = [args EXCEPT ![p] = a]
    /\ IF a.op = "airspace_summary_by_region" /\ ~RegionKnown(a.region)
       THEN /\ result' = [result EXCEPT ![p] = Some(UnknownRegion(a.region))]
            /\ pc' = [pc EXCEPT ![p] = "done"]
            /\ UNCHANGED <<t0, g0, tok, reqs, inflight>>
       ELSE IF ~creds
       THEN /\ tok' = [tok EXCEPT ![p] = None]
            /\ reqs' = [reqs EXCEPT ![p] = IssueGet(reqs[p])]
            /\ inflight' = [inflight EXCEPT ![p] = {"data"}]
            /\ pc' = [pc EXCEPT ![p] = "get_wait"]
            /\ UNCHANGED <<t0, g0, result>>
       ELSE IF CacheValid(token_cache, now)
       THEN /\ tok' = [tok EXCEPT ![p] = token_cache.token]
            /\ reqs' = [reqs EXCEPT ![p] = IssueGet(reqs[p])]
            /\ inflight' = [inflight EXCEPT ![p] = {"data"}]
            /\ pc' = [pc EXCEPT ![p] = "get_wait"]
            /\ UNCHANGED <<t0, g0, result>>
       ELSE /\ t0' = [t0 EXCEPT ![p] = now]
            /\ g0' = [g0 EXCEPT ![p] = Len(grants)]
            /\ tok' = tok
            /\ reqs' = [reqs EXCEPT ![p] = Append(reqs[p], "token")]
            /\ inflight' = [inflight EXCEPT ![p] = {"token"}]
            /\ pc' = [pc EXCEPT ![p] = "auth_wait"]
            /\ UNCHANGED result
    /\ UNCHANGED <<creds, now, token_cache, grants, fault, raw, fnvars>>

\* The token endpoint answers (or the POST fails): the rest of
\* _get_bearer_token, then _opensky_get up to its GET.
AuthResponse(p, o) ==
    /\ pc[p] = "auth_wait"
    /\ Stores(o) => Len(grants) < MaxGrants
    /\ IF Stores(o)
       THEN LET token == IF o.has_token THEN Some(Len(grants) + 1) ELSE None
            IN /\ token_cache' = StoreToken(token_cache, token, t0[p], ExpiresIn(o))
               /\ grants' = Append(grants, [token |-> token, t |-> t0[p],
                                            expires_in |-> ExpiresIn(o)])
               /\ tok' = [tok EXCEPT ![p] = token]
       ELSE /\ tok' = [tok EXCEPT ![p] = TokenOnFailure(token_cache)]
            /\ UNCHANGED <<token_cache, grants>>
    /\ t0' = [t0 EXCEPT ![p] = 0]
    /\ g0' = [g0 EXCEPT ![p] = 0]
    /\ reqs' = [reqs EXCEPT ![p] = IssueGet(reqs[p])]
    /\ inflight' = [inflight EXCEPT ![p] = (inflight[p] \ {"token"}) \cup {"data"}]
    /\ pc' = [pc EXCEPT ![p] = "get_wait"]
    /\ UNCHANGED <<creds, now, args, fault, raw, result, fnvars>>

\* The data endpoint answers (or the GET fails): the rest of _opensky_get and
\* of the operation that called it.
DataResponse(p, o) ==
    /\ pc[p] = "get_wait"
    /\ LET rw == OpenskyGetResult(o, Url, ParamsOf(args[p]))
       IN /\ raw' = [raw EXCEPT ![p] = Some(rw)]
          /\ result' = [result EXCEPT ![p] = Some(OpResult(args[p], rw))]
    /\ fault' = [fault EXCEPT ![p] = RaisedBy(o)]
    /\ inflight' = [inflight EXCEPT ![p] = inflight[p] \ {"data"}]
    /\ tok' = [tok EXCEPT ![p] = None]
    /\ pc' = [pc EXCEPT ![p] = "done"]
    /\ UNCHANGED <<creds, now, token_cache, grants, args, t0, g0, reqs, fnvars>>

\* The caller takes the result; the invocation's locals are gone.
Return(p) ==
    /\ pc[p] = "done"
    /\ pc' = [pc EXCEPT ![p] = "idle"]
    /\ args' = [args EXCEPT ![p] = NoArgs]
    /\ t0' = [t0 EXCEPT ![p] = 0]
    /\ g0' = [g0 EXCEPT ![p] = 0]
    /\ tok' = [tok EXCEPT ![p] = None]
    /\ reqs' = [reqs EXCEPT ![p] = <<>>]
    /\ inflight' = [inflight EXCEPT ![p] = {}]
    /\ fault' = [fault EXCEPT ![p] = ""]
    /\ raw' = [raw EXCEPT ![p] = None]
    /\ result' = [result EXCEPT ![p] = None]
    /\ UNCHANGED <<creds, now, token_cache, grants, fnvars>>

\* The clock advances.
Tick ==
    /\ now + TickStep <= MaxTime
    /\ now' = now + TickStep
    /\ UNCHANGED <<creds, token_cache, grants, pc, args, t0, g0, tok, reqs,
                   inflight, fault, raw, result, fnvars>>

\* Concurrent invocations sharing the token cache.
Next ==
    \/ Tick
    \/ \E p \in Procs, a \in ConcInputs : Invoke(p, a)
    \/ \E p \in Procs, o \in AuthOutcomes : AuthResponse(p, o)
    \/ \E p \in Procs, o \in ConcDataOutcomes : DataResponse(p, o)
    \/ \E p \in Procs : Return(p)

Spec == Init /\ [][Next]_vars

\* One caller, every operation, every input and every transport outcome.
OpsNext ==
    \/ Tick
    \/ \E a \in Inputs : Invoke(1, a)
    \/ \E o \in AuthOutcomes : AuthResponse(1, o)
    \/ \E o \in DataOutcomes : DataResponse(1, o)
    \/ Return(1)

OpsSpec == Init /\ [][OpsNext]_vars

----------------------------------------------------------------------------
(* The pure functions on bounded inputs: _normalize_states, then the summary *)

FnBBox == BBoxParams(<<5520, 3690, 5610, 3830>>)

FnInit ==
    /\ creds = FALSE
    /\ now = 0
    /\ token_cache = EmptyCache
    /\ grants = <<>>
    /\ pc = [p \in Procs |-> "idle"]
    /\ args = [p \in Procs |-> NoArgs]
    /\ t0 = [p \in Procs |-> 0]
    /\ g0 = [p \in Procs |-> 0]
    /\ tok = [p \in Procs |-> None]
    /\ reqs = [p \in Procs |-> <<>>]
    /\ inflight = [p \in Procs |-> {}]
    /\ fault = [p \in Procs |-> ""]
    /\ raw = [p \in Procs |-> None]
    /\ result = [p \in Procs |-> None]
    /\ fn_phase = "in"
    /\ fn_raw \in FnPayloads
    /\ fn_top_n \in TopNs
    /\ fn_states = <<>>
    /\ fn_summary = None

FnNormalize ==
    /\ fn_phase = "in"
    /\ fn_states' = NormalizeStates(fn_raw)
    /\ fn_phase' = "normalized"
    /\ UNCHANGED <<gwvars, fn_raw, fn_top_n, fn_summary>>

FnSummarize ==
    /\ fn_phase = "normalized"
    /\ fn_summary' = Some(Summary(fn_states, FnBBox, Len(fn_states), fn_top_n))
    /\ fn_phase' = "summarized"
    /\ UNCHANGED <<gwvars, fn_raw, fn_top_n, fn_states>>

FnNext == FnNormalize \/ FnSummarize

PureSpec == FnInit /\ [][FnNext]_vars

----------------------------------------------------------------------------
(* Vocabulary of the claims *)

\* A step in which invocation p enters _get_bearer_token with credentials set.
CallStep(p) == creds /\ pc[p] = "idle" /\ pc'[p] \in {"auth_wait", "get_wait"}

\* A step in which the refresh of invocation p ends.
RefreshEnds(p) == pc[p] = "auth_wait" /\ pc'[p] # "auth_wait"

\* ... without a token: nothing was stored, or a response without a token was.
RefreshFails(p) ==
    /\ RefreshEnds(p)
    /\ \/ Len(grants') = Len(grants)
       \/ grants'[Len(grants')].token = <<>>

\* t + max(60, e - 30) of a stored token response
WindowEnd(g) ==
    g.t + (IF g.expires_in - 30 > 60 THEN g.expires_in - 30 ELSE 60)

\* The cache holds a token that a call made now would treat as valid.
HoldsValidToken == token_cache.token # <<>> /\ now < token_cache.exp

TokenRequests(p) == Len(SelectSeq(reqs[p], LAMBDA r : r = "token"))
DataRequests(p) == Len(SelectSeq(reqs[p], LAMBDA r : r = "data"))

\* The gateway fetch of invocation p has returned.
Fetched(p) == pc[p] = "done" /\ raw[p] # <<>>

----------------------------------------------------------------------------
(* C1 *)

\* C1 as stated: after a successful grant of a call started at t with
\* expires_in = e, every later call before t + max(60, e - 30) returns the
\* cached token with no auth request, and a call at or after the expiry of
\* the latest grant issues exactly one.  ("That cached token" is read in the
\* claim's favour as the token the cache holds at the call.)
C1_Original ==
    [][\A p \in Procs : CallStep(p) =>
          \A i \in 1 .. Len(grants) :
             grants[i].token # <<>> =>
                IF now < WindowEnd(grants[i])
                THEN tok'[p] = token_cache.token /\ reqs'[p] = <<"data">>
                ELSE i = Len(grants) => reqs'[p] = <<"token">>]_vars

\* C1, amended: the same for the grant whose response is the one stored last
\* (no other token response has been stored in the cache since): a call
\* strictly before t + max(60, e - 30) returns that token and issues no auth
\* request, a call at or after it issues exactly one auth request; and no
\* call ever issues a second one.
C1_CachedWindow ==
    [][\A p \in Procs :
          /\ CallStep(p) =>
                LET n == Len(grants) IN
                (n > 0 /\ grants[n].token # <<>>) =>
                   IF now < WindowEnd(grants[n])
                   THEN /\ tok'[p] = grants[n].token
                        /\ reqs'[p] = <<"data">>
                   ELSE /\ reqs'[p] = <<"token">>
                        /\ pc'[p] = "auth_wait"
          /\ RefreshEnds(p) => reqs'[p] = <<"token", "data">>]_vars

\* A call inside the window holds the cached token without an auth request
\* while another, started at the expiry, is performing its one grant.
C1_Witness ==
    /\ creds
    /\ Len(grants) = 1
    /\ grants[1].token # <<>>
    /\ \E p, q \in Procs :
          /\ pc[p] = "get_wait" /\ reqs[p] = <<"data">> /\ tok[p] = grants[1].token
          /\ pc[q] = "auth_wait" /\ reqs[q] = <<"token">>
          /\ t0[q] = WindowEnd(grants[1])

(* C2 *)

\* C2 as stated: when a refresh fails, get_token returns none, the cache
\* holds no token a later call would treat as valid, and the next call
\* performs the grant again.
C2_Original ==
    [][\A p \in Procs :
          /\ RefreshFails(p) => (tok'[p] = <<>> /\ ~HoldsValidToken')
          /\ (CallStep(p) /\ ~HoldsValidToken) => reqs'[p] = <<"token">>]_vars

\* C2, amended: when a refresh fails, get_token returns none and stores no
\* token; provided no other call's token response was stored in the cache
\* since the failing call read it, the cache holds no token a later call
\* would treat as valid; and a call that finds no such token performs the
\* grant.
C2_FailedRefresh ==
    [][\A p \in Procs :
          /\ RefreshFails(p) =>
                /\ tok'[p] = <<>>
                /\ token_cache' = token_cache \/ token_cache'.token = <<>>
                /\ Len(grants) = g0[p] => ~HoldsValidToken'
          /\ (CallStep(p) /\ ~HoldsValidToken) => reqs'[p] = <<"token">>]_vars

\* A refresh has just failed with an expired token still in the cache.
C2_Witness ==
    /\ creds
    /\ token_cache.token # <<>>
    /\ ~HoldsValidToken
    /\ \E p \in Procs :
          pc[p] = "get_wait" /\ reqs[p] = <<"token", "data">> /\ tok[p] = <<>>

(* C3 *)

\* C3: concurrent calls that saw no valid token each perform at most one
\* grant and return the token of their own grant (a granted token, and never
\* the one another refreshing call returns), and the cached (token, expiry)
\* pair is always that of one token response, the one stored last.
C3_LastWriteWins ==
    /\ grants = <<>> => token_cache = [token |-> <<>>, exp |-> 0]
    /\ grants # <<>> =>
          LET g == grants[Len(grants)] IN
          token_cache = [token |-> g.token, exp |-> WindowEnd(g)]
    /\ \A p \in Procs :
          /\ TokenRequests(p) <= 1
          /\ (TokenRequests(p) = 1 /\ pc[p] = "get_wait" /\ tok[p] # <<>>) =>
                /\ \E i \in 1 .. Len(grants) : grants[i].token = tok[p]
                /\ \A q \in Procs \ {p} :
                      (TokenRequests(q) = 1 /\ pc[q] = "get_wait") => tok[q] # tok[p]

\* Two overlapping calls both stored a token: the call that stored the
\* second had read the cache before the first was stored (it started inside
\* the first one's window and refreshed all the same), and both hold their
\* tokens.
C3_Witness ==
    /\ Len(grants) = 2
    /\ grants[1].token # <<>> /\ grants[2].token # <<>>
    /\ grants[2].t < WindowEnd(grants[1])
    /\ WindowEnd(grants[2]) < WindowEnd(grants[1])
    /\ \E p, q \in Procs :
          /\ pc[p] = "get_wait" /\ tok[p] = grants[1].token
          /\ pc[q] = "get_wait" /\ tok[q] = grants[2].token

(* C4 *)

\* C4: a gateway fetch issues at most one token request, then exactly one
\* data GET, never both at once, whether the grant succeeded, failed or was
\* skipped, and repeats neither.
C4_OneGrantThenOneGet ==
    \A p \in Procs :
       /\ reqs[p] \in {<<>>, <<"token">>, <<"data">>, <<"token", "data">>}
       /\ Cardinality(inflight[p]) <= 1
       /\ pc[p] = "auth_wait" => (reqs[p] = <<"token">> /\ inflight[p] = {"token"})
       /\ pc[p] = "get_wait" => (DataRequests(p) = 1 /\ inflight[p] = {"data"})
       /\ Fetched(p) =>
             (TokenRequests(p) <= 1 /\ DataRequests(p) = 1 /\ inflight[p] = {})

\* A fetch that asked for a token while none was ever granted, and whose GET
\* failed too, has returned.
C4_Witness ==
    /\ Fetched(1)
    /\ reqs[1] = <<"token", "data">>
    /\ grants = <<>>
    /\ ~raw[1][1].ok

(* C5 *)

\* The kind C5 gives each failure class of the data request.
ClaimedKind(exc) ==
    IF exc = "ConnectError" THEN "connect_error"
    ELSE IF exc \in {"ConnectTimeout", "ReadTimeout", "WriteTimeout", "PoolTimeout"}
         THEN "timeout"
    ELSE IF exc = "HTTPStatusError" THEN "http_status"
    ELSE "unknown"

\* C5: every failure of the data request yields an error whose kind is that
\* of its failure class (connect_error, timeout, http_status with the status
\* code, unknown), with where = "opensky" and the request's url and params.
C5_KindByFailureClass ==
    \A p \in Procs :
       (Fetched(p) /\ fault[p] # "") =>
          LET r == raw[p][1] IN
          /\ ~r.ok
          /\ r.error.kind = ClaimedKind(fault[p])
          /\ r.error.where = "opensky"
          /\ r.error.url = "https://opensky-network.org/api/states/all"
          /\ r.error.params = ParamsOf(args[p])
          /\ r.error.kind = "http_status" =>
                ("status" \in DOMAIN r.error /\ ~(r.error.status \in 200 .. 299))

(* C6 *)

FetchingOps ==
    {"live_states", "normalized_states", "airspace_summary",
     "airspace_summary_by_region"}

\* C6: whenever the gateway fetch returns an error envelope, each of the four
\* operations returns that envelope unchanged, and a failure of the data
\* request never leaves the operation as an exception.
C6_ErrorEnvelopeUnchanged ==
    \A p \in Procs :
       Fetched(p) =>
          /\ args[p].op \in FetchingOps
          /\ ~raw[p][1].ok => result[p] = raw[p]
          /\ fault[p] # "" =>
                ("ok" \in DOMAIN result[p][1] /\ ~result[p][1].ok)

\* The region summary has returned the gateway's error envelope.
C6_Witness ==
    /\ Fetched(1)
    /\ args[1].op = "airspace_summary_by_region"
    /\ fault[1] = "ReadTimeout"
    /\ result[1] = raw[1]

(* C7 *)

Inverted(b) == b[1] > b[3] \/ b[2] > b[4]

\* C7: a bounding box with lat_min > lat_max or lon_min > lon_max given to
\* live_states, normalized_states or airspace_summary is rejected before any
\* upstream request is issued.
C7_InvertedBoxRejected ==
    \A p \in Procs :
       (/\ args[p].op \in {"live_states", "normalized_states", "airspace_summary"}
        /\ Inverted(args[p].bbox)) =>
          reqs[p] = <<>>

(* C10 *)

\* C10: the region summary called with a name outside the catalog returns
\* an error envelope of kind unknown_region listing every registered name
\* and issues no token or data request.
C10_UnknownRegion ==
    \A p \in Procs :
       (/\ args[p].op = "airspace_summary_by_region"
        /\ args[p].region \notin {"moscow", "spb", "komi", "komi_wide"}) =>
          /\ pc[p] = "done"
          /\ reqs[p] = <<>>
          /\ inflight[p] = {}
          /\ raw[p] = <<>>
          /\ result[p] # <<>>
          /\ "ok" \in DOMAIN result[p][1]
          /\ ~result[p][1].ok
          /\ result[p][1].error.kind = "unknown_region"
          /\ {result[p][1].error.available[i] :
                 i \in 1 .. Len(result[p][1].error.available)}
             = {"moscow", "spb", "komi", "komi_wide"}

\* The region summary has answered a call for an unregistered name.
C10_Witness ==
    /\ pc[1] = "done"
    /\ args[1].op = "airspace_summary_by_region"
    /\ args[1].region = "atlantis"
    /\ result[1] # <<>>

(* C8 *)

\* The source records of the harness payload (none when states is null or absent).
FnSource ==
    IF fn_raw.has_states /\ fn_raw.states # <<>> THEN fn_raw.states[1] ELSE <<>>

\* The source records with latitude (index 6) and longitude (index 5) both non-null.
FnPositioned == SelectSeq(FnSource, LAMBDA s : s[7] # <<>> /\ s[6] # <<>>)

\* C8: normalize outputs exactly one record per source record whose latitude
\* and longitude are both non-null, in input order, and an empty list for a
\* payload whose states field is null or absent.
C8_NormalizeKeepsPositioned ==
    fn_phase \in {"normalized", "summarized"} =>
       /\ Len(fn_states) = Len(FnPositioned)
       /\ \A i \in 1 .. Len(fn_states) :
             /\ fn_states[i].icao24 = FnPositioned[i][1]
             /\ fn_states[i].lat = FnPositioned[i][7]
             /\ fn_states[i].lon = FnPositioned[i][6]
       /\ (~fn_raw.has_states \/ fn_raw.states = <<>>) => fn_states = <<>>

\* Three source records, the middle one without latitude, normalized to two.
C8_Witness ==
    /\ fn_phase = "normalized"
    /\ Len(FnSource) = 3
    /\ FnSource[1][7] # <<>> /\ FnSource[1][6] # <<>>
    /\ FnSource[2][7] = <<>> /\ FnSource[2][6] # <<>>
    /\ FnSource[3][7] # <<>> /\ FnSource[3][6] # <<>>
    /\ FnSource[1] # FnSource[3]
    /\ Len(fn_states) = 2

(* C9 *)

\* The number of normalized states with field f defined.
FnDefined(f) == Len(SelectSeq(fn_states, LAMBDA s : s[f] # <<>>))

\* C9 as stated: both rankings are strictly descending on their key, no
\* longer than top_n, and hold only states whose key is defined.  (top_n is
\* read in the claim's favour as a count: the length is compared with it only
\* when it is not negative.)
C9_Original ==
    fn_phase = "summarized" =>
       \A r \in {<<"top_by_speed", "speed_kmh">>, <<"top_by_altitude", "alt_ft">>} :
          LET top == fn_summary[1][r[1]] IN
          /\ \A i \in 1 .. Len(top) : top[i][r[2]] # <<>>
          /\ \A i \in 1 .. Len(top) - 1 : top[i][r[2]][1] > top[i + 1][r[2]][1]
          /\ fn_top_n >= 0 => Len(top) <= fn_top_n

\* C9, amended: both rankings hold only states whose key is defined and are
\* in non-increasing order of the key (equal keys are possible); their length
\* is at most top_n when top_n >= 0, and max(0, k + top_n) when top_n < 0,
\* k being the number of states with the key defined.
C9_Rankings ==
    fn_phase = "summarized" =>
       \A r \in {<<"top_by_speed", "speed_kmh">>, <<"top_by_altitude", "alt_ft">>} :
          LET top == fn_summary[1][r[1]]
              k   == FnDefined(r[2])
          IN
          /\ \A i \in 1 .. Len(top) : top[i][r[2]] # <<>>
          /\ \A i \in 1 .. Len(top) - 1 : top[i][r[2]][1] >= top[i + 1][r[2]][1]
          /\ fn_top_n >= 0 => Len(top) <= fn_top_n
          /\ fn_top_n < 0 =>
                Len(top) = (IF k + fn_top_n > 0 THEN k + fn_top_n ELSE 0)

\* A summary of three states, one with no speed and two with equal speeds,
\* one with no altitude: each ranking holds the two states that have its key.
C9_Witness ==
    /\ fn_phase = "summarized"
    /\ fn_top_n = 2
    /\ Len(fn_states) = 3
    /\ FnDefined("speed_kmh") = 2
    /\ Len(fn_summary[1].top_by_speed) = 2
    /\ fn_summary[1].top_by_speed[1].speed_kmh = fn_summary[1].top_by_speed[2].speed_kmh
    /\ FnDefined("alt_ft") = 2
    /\ Len(fn_summary[1].top_by_altitude) = 2

====
